---- MODULE Spec2Model ----
(***************************************************************************)
(* A model of gpt-llm.py: the character vocabulary, the batch sampler, the *)
(* Transformer forward pass (as terms over its tensor operations), the     *)
(* loss estimator, the training loop and the generator.                    *)
(*                                                                         *)
(* Strings are sequences of code points.  Tensors of activations are       *)
(* sequences (one entry per time step) of terms: a term is a tuple whose   *)
(* first entry names the tensor operation that produced it, so two         *)
(* activations are equal in the model only if the same operations were     *)
(* applied to the same inputs.                                             *)
(***************************************************************************)
EXTENDS Integers, Sequences, FiniteSets, TLC

VARIABLES
    \* hyperparameters (module globals, lines 7-17) and the corpus (line 22)
    block_size, n_embd, n_head, n_layer, max_iters, eval_interval, eval_iters,
    batch_size, text,
    \* vocabulary codec calls: encode(s), decode(enc)
    vpc, s, enc, dec,
    \* one call of get_batch(split)
    bpc, split, ix, X, Y,
    \* the main program: construction, training loop, estimate_loss, generate
    pc, training, iter, el_status, el_split, el_k, stepped, reported,
    fwd_caller, fwd_training,
    \* generate(idx, max_new_tokens)
    idx, idx0, max_new_tokens, gen_i, printed,
    \* one forward call of a Head, a Block or the whole model
    call, fpc, fidx, has_targets, seed, x, layer, out, loss

cfgVars == <<block_size, n_embd, n_head, n_layer, max_iters, eval_interval,
             eval_iters, batch_size, text>>
vocabVars == <<vpc, s, enc, dec>>
batchVars == <<bpc, split, ix, X, Y>>
mainVars == <<pc, training, iter, el_status, el_split, el_k, stepped, reported,
              fwd_caller, fwd_training>>
genVars == <<idx, idx0, max_new_tokens, gen_i, printed>>
fwdVars == <<call, fpc, fidx, has_targets, seed, x, layer, out, loss>>
vars == <<cfgVars, vocabVars, batchVars, mainVars, genVars, fwdVars>>

----------------------------------------------------------------------------
(* Bounds of the model *)

MaxAlpha == 2        \* distinct characters a corpus may use
MaxText == 3         \* longest corpus enumerated character by character
MaxStr == 2          \* longest string handed to encode
MaxBlock == 2        \* largest block_size
MaxBatch == 2        \* largest batch_size
MaxLen == 20         \* longest patterned corpus handed to get_batch
MaxEmbd == 3         \* largest n_embd
MaxHead == 2         \* largest n_head
MaxLayer == 2        \* largest n_layer
MaxIters == 4        \* largest max_iters
MaxInterval == 3     \* largest eval_interval
MaxEvalIters == 2    \* largest eval_iters
MaxNew == 2          \* largest max_new_tokens
MaxSeed == 2         \* longest seed sequence handed to generate
MaxRows == 2         \* most rows of a seed handed to generate
LenUnit == 10        \* corpora of the whole program have k * LenUnit characters
MaxUnits == 3        \* ... for k up to MaxUnits

----------------------------------------------------------------------------
(* Python helpers *)

Min(a, b) == IF a < b THEN a ELSE b
Max(a, b) == IF a > b THEN a ELSE b

\* l[lo:hi] on a list of length Len(l), 0-based, for 0 <= lo: the slice stops
\* at the end of the list instead of failing
Slice(l, lo, hi) ==
    LET ll == l
        a == Min(lo, Len(ll))
        b == Min(hi, Len(ll))
    IN [j \in 1..Max(b - a, 0) |-> ll[a + j]]

\* l[-k:] for k >= 1
LastK(l, k) == Slice(l, Max(Len(l) - k, 0), Len(l))

\* set(text)
SetOf(l) == {l[i] : i \in 1..Len(l)}

\* list(set): some enumeration of the set (here: descending)
RECURSIVE ListOf(_)
ListOf(S) ==
    IF S = {} THEN <<>>
    ELSE LET m == CHOOSE m \in S : \A y \in S : y <= m
         IN <<m>> \o ListOf(S \ {m})

\* sorted(l): insertion of each element into an ascending list
RECURSIVE Insert(_, _)
Insert(l, e) ==
    IF l = <<>> THEN <<e>>
    ELSE IF e <= Head(l) THEN <<e>> \o l
    ELSE <<Head(l)>> \o Insert(Tail(l), e)

RECURSIVE sorted(_)
sorted(l) == IF l = <<>> THEN <<>> ELSE Insert(sorted(Tail(l)), Head(l))

\* the corpora drawn by the specifications: a repeating pattern of p characters
PatternText(L, p) == [i \in 1..L |-> 97 + ((i - 1) % p)]

Alphabet == {97 + c : c \in 0..(MaxAlpha - 1)}

SeqsUpTo(S, n) == UNION {[1..k -> S] : k \in 0..n}

----------------------------------------------------------------------------
(* Vocabulary, lines 25-34 *)

\* a corpus whose duplicates were not removed: sorted(list(text))
chars_nodedup == sorted(text)

chars == sorted(ListOf(SetOf(text)))

vocab_size == Len(chars)

\* {ch:i for i,ch in enumerate(chars)}: a later pair overwrites an earlier one
stoi ==
    LET cs == chars
    IN [ch \in SetOf(cs) |->
           CHOOSE i \in 0..(Len(cs) - 1) :
               /\ cs[i + 1] = ch
               /\ \A j \in 0..(Len(cs) - 1) : cs[j + 1] = ch => j <= i]

itos == LET cs == chars IN [i \in 0..(Len(cs) - 1) |-> cs[i + 1]]

\* both codecs raise KeyError on a key the dictionary does not hold
encodeRaises(str) == LET m == stoi IN \E i \in 1..Len(str) : str[i] \notin DOMAIN m
encode(str) == LET m == stoi IN [i \in 1..Len(str) |-> m[str[i]]]

decodeRaises(l) == LET m == itos IN \E i \in 1..Len(l) : l[i] \notin DOMAIN m
decode(l) == LET m == itos IN [i \in 1..Len(l) |-> m[l[i]]]

\* data = torch.tensor(encode(text)); n = int(0.9 * len(data))
data == encode(text)
n == (9 * Len(text)) \div 10
train_data == LET d == data IN Slice(d, 0, n)
val_data == LET d == data IN Slice(d, n, Len(d))

----------------------------------------------------------------------------
(* Values of the variables a specification does not use *)

CfgSmall ==
    /\ block_size = 1 /\ n_embd = 1 /\ n_head = 1 /\ n_layer = 1
    /\ max_iters = 0 /\ eval_interval = 1 /\ eval_iters = 1 /\ batch_size = 1

VocabIdle == vpc = "idle" /\ s = <<>> /\ enc = <<>> /\ dec = <<>>

BatchIdle == bpc = "idle" /\ split = "train" /\ ix = <<>> /\ X = <<>> /\ Y = <<>>

MainIdle ==
    /\ pc = "idle" /\ training = TRUE /\ iter = 0
    /\ el_status = "none" /\ el_split = "train" /\ el_k = 0
    /\ stepped = {} /\ reported = {}
    /\ fwd_caller = "none" /\ fwd_training = TRUE

GenIdle ==
    /\ idx = <<>> /\ idx0 = <<>> /\ max_new_tokens = 0 /\ gen_i = 0
    /\ printed = <<>>

FwdIdle ==
    /\ call = "none" /\ fpc = "idle" /\ fidx = <<>> /\ has_targets = FALSE
    /\ seed = 0 /\ x = <<>> /\ layer = 0 /\ out = <<>> /\ loss = "None"

----------------------------------------------------------------------------
(* The codecs called on a string: encode(s), then decode of its result *)

InitVocab ==
    /\ CfgSmall /\ BatchIdle /\ MainIdle /\ GenIdle /\ FwdIdle
    /\ text \in SeqsUpTo(Alphabet, MaxText)
    /\ s \in SeqsUpTo(Alphabet, MaxStr)
    /\ vpc = "start" /\ enc = <<>> /\ dec = <<>>

Encode ==
    /\ vpc = "start"
    /\ IF encodeRaises(s)
       THEN vpc' = "KeyError" /\ enc' = enc
       ELSE vpc' = "encoded" /\ enc' = encode(s)
    /\ UNCHANGED <<s, dec, cfgVars, batchVars, mainVars, genVars, fwdVars>>

Decode ==
    /\ vpc = "encoded"
    /\ IF decodeRaises(enc)
       THEN vpc' = "KeyError" /\ dec' = dec
       ELSE vpc' = "decoded" /\ dec' = decode(enc)
    /\ UNCHANGED <<s, enc, cfgVars, batchVars, mainVars, genVars, fwdVars>>

NextVocab == Encode \/ Decode

SpecVocab == InitVocab /\ [][NextVocab]_vars

\* C7: the vocabulary is a bijection between the corpus characters and the ids
\* 0 .. vocab_size - 1, and on a string of corpus characters encode keeps the
\* length and decode(encode(s)) = s.
C7_VocabularyRoundTrip ==
    /\ LET to_id == stoi
           to_ch == itos
       IN /\ \A c \in SetOf(text) :
                /\ c \in DOMAIN to_id
                /\ to_id[c] \in 0..(vocab_size - 1)
                /\ to_ch[to_id[c]] = c
          /\ \A i \in 0..(vocab_size - 1) :
                /\ to_ch[i] \in SetOf(text)
                /\ to_id[to_ch[i]] = i
    /\ SetOf(s) \subseteq SetOf(text) =>
          /\ vpc # "KeyError"
          /\ vpc \in {"encoded", "decoded"} =>
                /\ Len(enc) = Len(s)
                /\ \A i \in 1..Len(enc) : enc[i] \in 0..(vocab_size - 1)
          /\ vpc = "decoded" => dec = s

\* a corpus with a repeated character, and a string of two different corpus
\* characters that went through encode and decode
C7_Witness ==
    /\ vpc = "decoded"
    /\ Len(text) > vocab_size
    /\ Len(s) = 2 /\ s[1] # s[2]
    /\ enc[1] # enc[2]

----------------------------------------------------------------------------
(* get_batch, lines 44-50 *)

SplitData(sp) == IF sp = "train" THEN train_data ELSE val_data

\* a draw that may also return its upper limit
randint_inclusive(high) == 0..high

\* torch.randint(high, ...): the values a draw may return; high <= 0 raises
randint(high) == 0..(high - 1)

\* torch.stack needs tensors of one size
Stackable(rows) ==
    \A i, j \in DOMAIN rows : Len(rows[i]) = Len(rows[j])

InitBatch ==
    /\ VocabIdle /\ MainIdle /\ GenIdle /\ FwdIdle
    /\ n_embd = 1 /\ n_head = 1 /\ n_layer = 1
    /\ max_iters = 0 /\ eval_interval = 1 /\ eval_iters = 1
    /\ \E L \in 1..MaxLen, p \in 1..MaxAlpha : text = PatternText(L, p)
    /\ block_size \in 1..MaxBlock
    /\ batch_size \in 1..MaxBatch
    /\ bpc = "start" /\ split = "train" /\ ix = <<>> /\ X = <<>> /\ Y = <<>>

GetBatch ==
    /\ bpc = "start"
    /\ \E sp \in {"train", "val"} :
         \E d \in {SplitData(sp)} :
           LET high == Len(d) - block_size
           IN /\ split' = sp
              /\ IF high <= 0
                 THEN bpc' = "RuntimeError" /\ UNCHANGED <<ix, X, Y>>
                 ELSE \E offs \in [1..batch_size -> randint(high)] :
                        LET xs == [i \in 1..batch_size |->
                                      Slice(d, offs[i], offs[i] + block_size)]
                            ys == [i \in 1..batch_size |->
                                      Slice(d, offs[i] + 1, offs[i] + block_size + 1)]
                        IN /\ ix' = offs
                           /\ IF Stackable(xs) /\ Stackable(ys)
                              THEN bpc' = "returned" /\ X' = xs /\ Y' = ys
                              ELSE bpc' = "RuntimeError" /\ UNCHANGED <<X, Y>>
    /\ UNCHANGED <<cfgVars, vocabVars, mainVars, genVars, fwdVars>>

NextBatch == GetBatch

SpecBatch == InitBatch /\ [][NextBatch]_vars

\* C9: on a split longer than block_size, get_batch returns batch_size rows;
\* X[i] and Y[i] have exactly block_size entries, X[i] is the window of the
\* split at an offset in 0 .. len(split) - block_size, Y[i][j] is the entry of
\* the split right after X[i][j], and the Y window ends within the split.
C9_BatchWindows ==
    \A d \in {SplitData(split)} :
      (bpc # "start" /\ Len(d) > block_size) =>
           /\ bpc = "returned"
           /\ Len(X) = batch_size /\ Len(Y) = batch_size /\ Len(ix) = batch_size
           /\ \A i \in 1..batch_size :
                 /\ Len(X[i]) = block_size /\ Len(Y[i]) = block_size
                 /\ ix[i] \in 0..(Len(d) - block_size)
                 /\ ix[i] + block_size + 1 <= Len(d)
                 /\ \A j \in 1..block_size :
                       /\ X[i][j] = d[ix[i] + j]
                       /\ Y[i][j] = d[ix[i] + j + 1]

\* a batch of two rows from the validation split whose Y windows end with the
\* last id of the split
C9_Witness ==
    /\ bpc = "returned" /\ split = "val" /\ batch_size = 2
    /\ Len(val_data) > block_size
    /\ \A i \in 1..2 : ix[i] + block_size + 1 = Len(val_data)
    /\ Y[1][block_size] = val_data[Len(val_data)]
    /\ X[1] # Y[1]

----------------------------------------------------------------------------
(* The model object: construction and what makes a forward pass raise *)

\* Block.__init__: head_size = n_embd // n_head
head_size == n_embd \div n_head

\* MultiHeadAttention.forward: the heads' outputs, concatenated, are n_head *
\* head_size wide, and self.proj is a Linear(n_embd, n_embd)
ProjShapeOk == n_head * head_size = n_embd

\* the embedding tables raise IndexError on an index they do not hold
TokenIdsOk(row) == \A t \in 1..Len(row) : row[t] \in 0..(vocab_size - 1)

\* a positional table that answers for any position
PositionsOk_any(T) == TRUE

\* position_embedding_table holds the positions 0 .. block_size - 1
PositionsOk(T) == T <= block_size

\* m(idx) on rows of T ids raises
ForwardRaises(rows, T) ==
    \/ \E b \in 1..Len(rows) : ~TokenIdsOk(rows[b])
    \/ ~PositionsOk(T)
    \/ n_layer >= 1 /\ ~ProjShapeOk

\* get_batch(sp) raises: torch.randint needs a positive upper limit
GetBatchRaises(sp) == Len(SplitData(sp)) - block_size <= 0

\* a batch as get_batch returns it has block_size ids of the corpus per row
BatchForwardRaises == ~PositionsOk(block_size) \/ (n_layer >= 1 /\ ~ProjShapeOk)

----------------------------------------------------------------------------
(* The program, lines 198-226 *)

InitMain ==
    /\ VocabIdle /\ BatchIdle /\ FwdIdle
    /\ block_size \in 1..MaxBlock
    /\ n_embd \in 1..MaxEmbd
    /\ n_head \in 1..MaxHead
    /\ n_layer = 1
    /\ max_iters \in 0..MaxIters
    /\ eval_interval \in 1..MaxInterval
    /\ eval_iters \in 1..MaxEvalIters
    /\ batch_size = 1
    /\ \E k \in 1..MaxUnits : text = PatternText(LenUnit * k, MaxAlpha)
    /\ max_new_tokens \in 0..MaxNew
    /\ pc = "start" /\ training = TRUE /\ iter = 0
    /\ el_status = "none" /\ el_split = "train" /\ el_k = 0
    /\ stepped = {} /\ reported = {}
    /\ fwd_caller = "none" /\ fwd_training = TRUE
    /\ idx = <<>> /\ idx0 = <<>> /\ gen_i = 0 /\ printed = <<>>

\* model = BigramLanguageModel(); m = model.to(device); optimizer = AdamW(...)
\* A new nn.Module is in training mode.  Nothing in the constructors compares
\* n_embd with n_head.
Construct ==
    /\ pc = "start"
    /\ pc' = "loop" /\ iter' = 0 /\ training' = TRUE
    /\ UNCHANGED <<el_status, el_split, el_k, stepped, reported, fwd_caller,
                   fwd_training, cfgVars, vocabVars, batchVars, genVars, fwdVars>>

\* an iteration with iter % eval_interval == 0: estimate_loss() is called and
\* starts: out = {}; m.eval()
LoopEval ==
    /\ pc = "loop" /\ iter < max_iters /\ iter % eval_interval = 0
    /\ pc' = "estimate_loss"
    /\ el_status' = "running" /\ el_split' = "train" /\ el_k' = 0
    /\ training' = FALSE
    /\ UNCHANGED <<iter, stepped, reported, fwd_caller, fwd_training,
                   cfgVars, vocabVars, batchVars, genVars, fwdVars>>

\* the rest of the if-body dedented: every iteration goes on to the train step
LoopSkip_train ==
    /\ pc = "loop" /\ iter < max_iters /\ iter % eval_interval # 0
    /\ pc' = "train_step"
    /\ UNCHANGED <<iter, training, el_status, el_split, el_k, stepped, reported,
                   fwd_caller, fwd_training,
                   cfgVars, vocabVars, batchVars, genVars, fwdVars>>

\* any other iteration has an empty body
LoopSkip ==
    /\ pc = "loop" /\ iter < max_iters /\ iter % eval_interval # 0
    /\ iter' = iter + 1
    /\ UNCHANGED <<pc, training, el_status, el_split, el_k, stepped, reported,
                   fwd_caller, fwd_training,
                   cfgVars, vocabVars, batchVars, genVars, fwdVars>>

\* one pass of the inner loop: X, Y = get_batch(split); logits, loss = m(X, Y).
\* An exception leaves estimate_loss and ends the program.
EstimateLossBatch ==
    /\ pc = "estimate_loss" /\ el_k < eval_iters
    /\ IF GetBatchRaises(el_split)
       THEN /\ pc' = "failed" /\ el_status' = "raised"
            /\ UNCHANGED <<el_k, fwd_caller, fwd_training>>
       ELSE /\ fwd_caller' = "estimate_loss" /\ fwd_training' = training
            /\ IF BatchForwardRaises
               THEN pc' = "failed" /\ el_status' = "raised" /\ el_k' = el_k
               ELSE pc' = pc /\ el_status' = el_status /\ el_k' = el_k + 1
    /\ UNCHANGED <<training, iter, el_split, stepped, reported,
                   cfgVars, vocabVars, batchVars, genVars, fwdVars>>

\* out['train'] = losses.mean(); the outer loop goes on to 'val'
EstimateLossNextSplit ==
    /\ pc = "estimate_loss" /\ el_k = eval_iters /\ el_split = "train"
    /\ el_split' = "val" /\ el_k' = 0
    /\ UNCHANGED <<pc, training, iter, el_status, stepped, reported, fwd_caller,
                   fwd_training, cfgVars, vocabVars, batchVars, genVars, fwdVars>>

\* out['val'] = losses.mean(); m.train(); return out; the loop prints the report
EstimateLossReturn ==
    /\ pc = "estimate_loss" /\ el_k = eval_iters /\ el_split = "val"
    /\ training' = TRUE
    /\ el_status' = "returned"
    /\ reported' = reported \cup {iter}
    /\ pc' = "train_step"
    /\ UNCHANGED <<iter, el_split, el_k, stepped, fwd_caller, fwd_training,
                   cfgVars, vocabVars, batchVars, genVars, fwdVars>>

\* the rest of the if-body: xb, yb = get_batch('train'); logits, loss = m(xb, yb);
\* optimizer.zero_grad(); loss.backward(); optimizer.step()
TrainStep ==
    /\ pc = "train_step"
    /\ IF GetBatchRaises("train")
       THEN pc' = "failed" /\ UNCHANGED <<iter, stepped, fwd_caller, fwd_training>>
       ELSE /\ fwd_caller' = "train" /\ fwd_training' = training
            /\ IF BatchForwardRaises
               THEN pc' = "failed" /\ UNCHANGED <<iter, stepped>>
               ELSE /\ stepped' = stepped \cup {iter}
                    /\ iter' = iter + 1
                    /\ pc' = "loop"
    /\ UNCHANGED <<training, el_status, el_split, el_k, reported,
                   cfgVars, vocabVars, batchVars, genVars, fwdVars>>

\* the loop is over: context = torch.zeros((1, 1)); m.generate(context, ...)
LoopExit ==
    /\ pc = "loop" /\ iter = max_iters
    /\ idx' = << <<0>> >> /\ idx0' = << <<0>> >> /\ gen_i' = 0
    /\ pc' = "generate"
    /\ UNCHANGED <<training, iter, el_status, el_split, el_k, stepped, reported,
                   fwd_caller, fwd_training, max_new_tokens, printed,
                   cfgVars, vocabVars, batchVars, fwdVars>>

----------------------------------------------------------------------------
(* generate, lines 180-195 *)

\* a running sequence that is cropped as well
Grow_cropped(rows, next) ==
    [b \in 1..Len(rows) |-> Append(LastK(rows[b], block_size), next[b])]

\* idx = torch.cat((idx, idx_next), dim=1)
Grow(rows, next) == [b \in 1..Len(rows) |-> Append(rows[b], next[b])]

\* one pass of the loop: crop, forward, softmax of the last step, sample, append
GenerateStep ==
    /\ pc = "generate" /\ gen_i < max_new_tokens
    /\ LET idx_cond == [b \in 1..Len(idx) |-> LastK(idx[b], block_size)]
       IN /\ fwd_caller' = "generate" /\ fwd_training' = training
          /\ IF ForwardRaises(idx_cond, Len(idx_cond[1]))
             THEN pc' = "failed" /\ UNCHANGED <<idx, gen_i>>
             ELSE \E idx_next \in [1..Len(idx) -> 0..(vocab_size - 1)] :
                    /\ idx' = Grow(idx, idx_next)
                    /\ gen_i' = gen_i + 1
                    /\ pc' = pc
    /\ UNCHANGED <<training, iter, el_status, el_split, el_k, stepped, reported,
                   idx0, max_new_tokens, printed,
                   cfgVars, vocabVars, batchVars, fwdVars>>

\* return idx
GenerateReturn ==
    /\ pc = "generate" /\ gen_i = max_new_tokens
    /\ pc' = "generated"
    /\ UNCHANGED <<training, iter, el_status, el_split, el_k, stepped, reported,
                   fwd_caller, fwd_training,
                   cfgVars, vocabVars, batchVars, genVars, fwdVars>>

\* print(decode(m.generate(...)[0].tolist()))
PrintDecoded ==
    /\ pc = "generated"
    /\ IF decodeRaises(idx[1])
       THEN pc' = "failed" /\ printed' = printed
       ELSE pc' = "done" /\ printed' = decode(idx[1])
    /\ UNCHANGED <<training, iter, el_status, el_split, el_k, stepped, reported,
                   fwd_caller, fwd_training, idx, idx0, max_new_tokens, gen_i,
                   cfgVars, vocabVars, batchVars, fwdVars>>

NextMain ==
    \/ Construct
    \/ LoopEval
    \/ LoopSkip
    \/ EstimateLossBatch
    \/ EstimateLossNextSplit
    \/ EstimateLossReturn
    \/ TrainStep
    \/ LoopExit
    \/ GenerateStep
    \/ GenerateReturn
    \/ PrintDecoded

SpecMain == InitMain /\ [][NextMain]_vars

\* the program with hyperparameters whose n_head divides n_embd, as 384 and 6 do
InitWellConfigured == InitMain /\ n_embd % n_head = 0

SpecWellConfigured == InitWellConfigured /\ [][NextMain]_vars

\* generate called on a seed of any length, on a constructed model
SeedRow(T, b) == [t \in 1..T |-> (t + b) % vocab_size]

InitGen ==
    /\ VocabIdle /\ BatchIdle /\ FwdIdle
    /\ block_size \in 1..MaxBlock
    /\ n_embd = 1 /\ n_head = 1 /\ n_layer = 1
    /\ max_iters = 0 /\ eval_interval = 1 /\ eval_iters = 1 /\ batch_size = 1
    /\ \E p \in 1..MaxAlpha : text = PatternText(LenUnit, p)
    /\ max_new_tokens \in 0..MaxNew
    /\ pc = "generate" /\ training = TRUE /\ iter = 0
    /\ el_status = "none" /\ el_split = "train" /\ el_k = 0
    /\ stepped = {} /\ reported = {}
    /\ fwd_caller = "none" /\ fwd_training = TRUE
    /\ \E B \in 1..MaxRows, T \in 1..MaxSeed :
          idx = [b \in 1..B |-> SeedRow(T, b)]
    /\ idx0 = idx
    /\ gen_i = 0 /\ printed = <<>>

NextGen == GenerateStep \/ GenerateReturn

SpecGen == InitGen /\ [][NextGen]_vars

----------------------------------------------------------------------------
(* Claims about generate *)

C1_Lengths ==
    pc \in {"generate", "generated"} =>
        /\ Len(idx) = Len(idx0)
        /\ \A b \in 1..Len(idx) :
              /\ Len(idx[b]) = Len(idx0[b]) + gen_i
              /\ SubSeq(idx[b], 1, Len(idx0[b])) = idx0[b]
              /\ \A t \in (Len(idx0[b]) + 1)..Len(idx[b]) :
                    idx[b][t] \in 0..(vocab_size - 1)
        /\ pc = "generated" => gen_i = max_new_tokens

C1_OneAppended ==
    idx' # idx =>
        /\ gen_i' = gen_i + 1
        /\ \E idx_next \in [1..Len(idx) -> 0..(vocab_size - 1)] :
              idx' = [b \in 1..Len(idx) |-> Append(idx[b], idx_next[b])]

\* C1: generate on a seed of T >= 1 ids per row never fails for its length,
\* returns rows of exactly T + max_new_tokens ids that start with the seed, and
\* each pass of its loop appends exactly one id of 0 .. vocab_size - 1 to every
\* row, also when T or T + max_new_tokens exceeds block_size.
C1_GenerateAppends ==
    /\ [](pc # "failed" /\ C1_Lengths)
    /\ [][C1_OneAppended]_vars

\* a seed of two rows, longer than block_size, extended by two ids and returned
C1_Witness ==
    /\ pc = "generated" /\ gen_i = 2 /\ max_new_tokens = 2
    /\ Len(idx) = 2
    /\ Len(idx0[1]) > block_size
    /\ Len(idx[1]) = Len(idx0[1]) + 2

----------------------------------------------------------------------------
(* Claims about the program *)

\* C2: estimate_loss puts the model in evaluation mode before its forward
\* passes, and whenever a call of it has ended, by return or by an exception
\* of get_batch or of the forward pass, the model is in training mode.
C2_ModeRestoredOnEveryExit ==
    /\ fwd_caller = "estimate_loss" => ~fwd_training
    /\ el_status \in {"returned", "raised"} => training

\* C3: every forward pass made by generate runs with the model in evaluation
\* mode.
C3_GenerateInEvalMode ==
    fwd_caller = "generate" => ~fwd_training

\* C6: when n_head does not divide n_embd, construction fails, so the program
\* never gets past it and no forward pass is ever started.
C6_BadConfigFailsAtConstruction ==
    n_embd % n_head # 0 => (pc = "start" /\ fwd_caller = "none")

Due == {i \in 0..(max_iters - 1) : i % eval_interval = 0}

\* C8: the optimizer steps in iteration i exactly when i % eval_interval = 0,
\* only after that iteration's report, and a training loop that ran to its end
\* made as many steps as reports: ceil(max_iters / eval_interval).
C8_StepCadence ==
    /\ stepped \subseteq reported
    /\ reported \subseteq Due
    /\ \A i \in 0..(iter - 1) : i \in stepped <=> i % eval_interval = 0
    /\ \A i \in stepped : i < iter
    /\ iter = max_iters =>
          /\ stepped = Due /\ reported = Due
          /\ Cardinality(stepped) = (max_iters + eval_interval - 1) \div eval_interval

\* a loop of four iterations with eval_interval 3 that ran to its end: steps in
\* iterations 0 and 3 only
C8_Witness ==
    /\ pc = "generate" /\ max_iters = 4 /\ eval_interval = 3
    /\ stepped = {0, 3} /\ reported = {0, 3}

----------------------------------------------------------------------------
(* Tensor operations as terms.  A (T, C) tensor is a sequence of T terms. *)

NInf == <<"-inf">>
Zero == <<"zero">>

\* nn.Dropout: the identity in evaluation mode, a random mask (named by the
\* state of the random source) in training mode
Dropout(a) == IF training THEN <<"dropout", seed, a>> ELSE a

\* nn.Embedding lookups
TokEmb(row) == [t \in 1..Len(row) |-> <<"tok_emb", row[t]>>]
PosEmb(T) == [t \in 1..T |-> <<"pos_emb", t - 1>>]

AddSeq(a, b) == [t \in 1..Len(a) |-> <<"add", a[t], b[t]>>]

----------------------------------------------------------------------------
(* Head, lines 68-93; rows and columns are counted from 1 *)

\* a buffer of ones that was never made triangular
tril_ones(r, c) == 1

\* torch.tril(torch.ones(block_size, block_size))
tril(r, c) == IF c <= r THEN 1 ELSE 0

\* self.tril[:T, :T] has min(T, block_size) rows and columns; masked_fill
\* broadcasts it to (T, T), which needs every size to be T or 1
MaskSize(T) == Min(T, block_size)
MaskRaises(T) == MaskSize(T) # T /\ MaskSize(T) # 1
MaskedAt(T, r, c) ==
    IF MaskSize(T) = T THEN tril(r, c) = 0 ELSE tril(1, 1) = 0

\* row r of wei after line 88: softmax of the scaled, masked scores of query r
\* against every key
Wei(l, h, xs, r) ==
    <<"softmax",
      <<"scores", n_embd, <<"query", l, h, xs[r]>>,
        [c \in 1..Len(xs) |->
            IF MaskedAt(Len(xs), r, c) THEN NInf ELSE <<"key", l, h, xs[c]>>]>> >>

\* line 89, `wei - self.dropout(wei)`: a difference that is computed and
\* dropped; wei keeps its value
WeiAtLine89(w) == w

\* a masked column has weight exactly 0: its value adds nothing to the sum
MaskedValues(l, h, xs, r) ==
    [c \in 1..Len(xs) |->
        IF MaskedAt(Len(xs), r, c) THEN Zero ELSE <<"value", l, h, xs[c]>>]

\* row r of out = wei @ v
HeadRow(l, h, xs, r) ==
    <<"matmul", WeiAtLine89(Wei(l, h, xs, r)), MaskedValues(l, h, xs, r)>>

HeadForward(l, h, xs) == [r \in 1..Len(xs) |-> HeadRow(l, h, xs, r)]

----------------------------------------------------------------------------
(* MultiHeadAttention, FeedForward, Block, lines 95-140 *)

\* torch.cat of the heads' rows, self.proj, self.dropout
MultiHeadForward(l, xs) ==
    [r \in 1..Len(xs) |->
        Dropout(<<"proj", l,
                  <<"cat", [h \in 1..n_head |-> HeadRow(l, h, xs, r)]>> >>)]

LayerNorm(l, k, xs) == [r \in 1..Len(xs) |-> <<"ln", l, k, xs[r]>>]

FeedForward(l, xs) == [r \in 1..Len(xs) |-> Dropout(<<"ffwd", l, xs[r]>>)]

BlockRaises(T) == MaskRaises(T) \/ ~ProjShapeOk

\* x = x + self.sa(self.ln1(x)); x = x + self.ffwd(self.ln2(x))
BlockForward(l, xs) ==
    CHOOSE res \in
        {AddSeq(x1, FeedForward(l, LayerNorm(l, 2, x1))) :
            x1 \in {AddSeq(xs, MultiHeadForward(l, ln1)) :
                      ln1 \in {LayerNorm(l, 1, xs)}}} : TRUE

----------------------------------------------------------------------------
(* BigramLanguageModel.forward, lines 155-178 *)

\* self.blocks: an nn.Sequential of the first k blocks
RECURSIVE Blocks(_, _)
Blocks(k, xs) ==
    IF k = 0 THEN xs
    ELSE CHOOSE res \in {BlockForward(k, y) : y \in {Blocks(k - 1, xs)}} : TRUE

\* self.lm_head(self.ln_f(x))
LmHead(xs) == [t \in 1..Len(xs) |-> <<"lm_head", <<"ln_f", xs[t]>> >>]

\* the logits of a forward pass that does not raise
ModelForward(row) ==
    LmHead(Blocks(n_layer, AddSeq(TokEmb(row), PosEmb(Len(row)))))

\* one call of a Head, of a Block, or of the model, on one row of ids; a Head
\* and a Block are handed the row's token embeddings
InitFwd ==
    /\ VocabIdle /\ BatchIdle /\ GenIdle
    /\ block_size \in 1..MaxBlock
    /\ n_head \in 1..MaxHead
    /\ n_embd \in {e \in 1..MaxEmbd : e % n_head = 0}
    /\ max_iters = 0 /\ eval_interval = 1 /\ eval_iters = 1 /\ batch_size = 1
    /\ text = PatternText(LenUnit, MaxAlpha)
    /\ call \in {"Head", "Block", "Model"}
    /\ n_layer \in IF call = "Model" THEN 1..MaxLayer ELSE {1}
    /\ has_targets \in IF call = "Model" THEN BOOLEAN ELSE {FALSE}
    /\ \E T \in 1..(block_size + 1) : fidx \in [1..T -> 0..(vocab_size - 1)]
    /\ training \in BOOLEAN
    /\ seed = 1
    /\ x = IF call = "Model" THEN <<>> ELSE TokEmb(fidx)
    /\ fpc = "start" /\ layer = 0 /\ out = <<>> /\ loss = "None"
    /\ pc = "idle" /\ iter = 0
    /\ el_status = "none" /\ el_split = "train" /\ el_k = 0
    /\ stepped = {} /\ reported = {}
    /\ fwd_caller = "none" /\ fwd_training = TRUE

\* Head.forward(x)
HeadCall ==
    /\ call = "Head" /\ fpc = "start"
    /\ IF MaskRaises(Len(x))
       THEN fpc' = "RuntimeError" /\ out' = out
       ELSE fpc' = "returned" /\ out' = HeadForward(1, 1, x)
    /\ UNCHANGED <<call, fidx, has_targets, seed, x, layer, loss,
                   cfgVars, vocabVars, batchVars, mainVars, genVars>>

\* Block.forward(x)
BlockCall ==
    /\ call = "Block" /\ fpc = "start"
    /\ IF BlockRaises(Len(x))
       THEN fpc' = "RuntimeError" /\ out' = out
       ELSE fpc' = "returned" /\ out' = BlockForward(1, x)
    /\ UNCHANGED <<call, fidx, has_targets, seed, x, layer, loss,
                   cfgVars, vocabVars, batchVars, mainVars, genVars>>

\* tok_emb = self.token_embedding_table(idx)
FwdTokEmb ==
    /\ call = "Model" /\ fpc = "start"
    /\ IF TokenIdsOk(fidx)
       THEN fpc' = "tok_emb" /\ x' = TokEmb(fidx)
       ELSE fpc' = "IndexError" /\ x' = x
    /\ UNCHANGED <<call, fidx, has_targets, seed, layer, out, loss,
                   cfgVars, vocabVars, batchVars, mainVars, genVars>>

\* pos_emb = self.position_embedding_table(torch.arange(T)); x = tok_emb + pos_emb
FwdPosEmb ==
    /\ call = "Model" /\ fpc = "tok_emb"
    /\ IF PositionsOk(Len(fidx))
       THEN fpc' = "blocks" /\ x' = AddSeq(x, PosEmb(Len(fidx)))
       ELSE fpc' = "IndexError" /\ x' = x
    /\ UNCHANGED <<call, fidx, has_targets, seed, layer, out, loss,
                   cfgVars, vocabVars, batchVars, mainVars, genVars>>

\* x = self.blocks(x), one block at a time
FwdBlock ==
    /\ call = "Model" /\ fpc = "blocks" /\ layer < n_layer
    /\ IF BlockRaises(Len(x))
       THEN fpc' = "RuntimeError" /\ x' = x /\ layer' = layer
       ELSE fpc' = fpc /\ x' = BlockForward(layer + 1, x) /\ layer' = layer + 1
    /\ UNCHANGED <<call, fidx, has_targets, seed, out, loss,
                   cfgVars, vocabVars, batchVars, mainVars, genVars>>

\* x = self.ln_f(x); logits = self.lm_head(x); the loss when targets are given
FwdLogits ==
    /\ call = "Model" /\ fpc = "blocks" /\ layer = n_layer
    /\ out' = LmHead(x)
    /\ loss' = IF has_targets THEN "cross_entropy" ELSE "None"
    /\ fpc' = "returned"
    /\ UNCHANGED <<call, fidx, has_targets, seed, x, layer,
                   cfgVars, vocabVars, batchVars, mainVars, genVars>>

NextFwd ==
    \/ HeadCall
    \/ BlockCall
    \/ FwdTokEmb
    \/ FwdPosEmb
    \/ FwdBlock
    \/ FwdLogits

SpecFwd == InitFwd /\ [][NextFwd]_vars

----------------------------------------------------------------------------
(* Claims about the forward pass *)

\* what the called unit returns for another row of ids
UnitForward(c, row) ==
    CASE c = "Head" -> HeadForward(1, 1, TokEmb(row))
      [] c = "Block" -> BlockForward(1, TokEmb(row))
      [] OTHER -> ModelForward(row)

AgreeUpTo(a, b, t) == \A u \in 1..t : a[u] = b[u]

\* C4: for a Head, a Block and the whole model, on an input of at most
\* block_size positions: any input of the same length that agrees with it on
\* the positions up to t yields the same output at position t.
C4_Causality ==
    (fpc = "returned" /\ Len(fidx) <= block_size) =>
        \A idx2 \in [1..Len(fidx) -> 0..(vocab_size - 1)] :
            idx2[1] = fidx[1] =>
                \A out2 \in {UnitForward(call, idx2)} :
                    \A t \in 1..Len(fidx) :
                        AgreeUpTo(fidx, idx2, t) => out[t] = out2[t]

\* the model of two blocks of two heads, called on two ids: changing the last
\* id changes the logits of the last position and leaves those of the first
C4_Witness ==
    /\ call = "Model" /\ fpc = "returned"
    /\ n_layer = 2 /\ n_head = 2 /\ Len(fidx) = 2 /\ block_size = 2
    /\ \E idx2 \in [1..2 -> 0..(vocab_size - 1)] :
          /\ idx2[1] = fidx[1] /\ idx2[2] # fidx[2]
          /\ \A out2 \in {ModelForward(idx2)} :
                out2[1] = out[1] /\ out2[2] # out[2]

C5_UpToBlockSize ==
    Len(fidx) <= block_size =>
        /\ fpc \notin {"IndexError", "RuntimeError"}
        /\ fpc = "returned" => Len(out) = Len(fidx) /\ Len(x) = Len(fidx)

\* C5 as stated: a forward pass of the model on block_size ids succeeds with
\* logits for every position; on more ids it fails before anything has been
\* computed and never returns logits.
C5_FailsBeforeAnyComputation ==
    call = "Model" =>
        /\ C5_UpToBlockSize
        /\ Len(fidx) > block_size =>
              /\ fpc \in {"start", "IndexError"}
              /\ x = <<>> /\ out = <<>>

\* C5, amended: a forward pass of the model on block_size ids succeeds with
\* logits for every position; on more ids it fails with the IndexError of the
\* positional lookup, after the token embeddings have been looked up and before
\* any block, normalisation or projection has run, and never returns logits.
C5_FailsAtPositionLookup ==
    call = "Model" =>
        /\ C5_UpToBlockSize
        /\ Len(fidx) > block_size =>
              /\ fpc \in {"start", "tok_emb", "IndexError"}
              /\ layer = 0 /\ out = <<>> /\ loss = "None"
              /\ x \in {<<>>, TokEmb(fidx)}
              /\ fpc = "IndexError" => x = TokEmb(fidx)

\* the model called on block_size + 1 ids has raised
C5_Witness ==
    /\ call = "Model" /\ fpc = "IndexError"
    /\ block_size = 2 /\ Len(fidx) = 3
    /\ x = TokEmb(fidx)

\* C10: a Head returns (the dropout of the softmax weights) @ v: in training
\* mode the dropped weights, in evaluation mode the softmax weights themselves.
C10_DropoutAppliedToWeights ==
    (call = "Head" /\ fpc = "returned") =>
        out = [r \in 1..Len(x) |->
                 <<"matmul", Dropout(Wei(1, 1, x, r)), MaskedValues(1, 1, x, r)>>]

====
